---- MODULE Spec2Model ----
(***************************************************************************)
(* Inventory ledger and checkout orchestrator of helloibe-nodejs.          *)
(*                                                                         *)
(* The relational store is modelled by its tables (inventories, orders,    *)
(* order_items, products, users).  Every request handler is a process      *)
(* whose position (pc) advances by one step per database statement: the    *)
(* code between two awaited statements runs atomically on the Node event   *)
(* loop, and each statement is atomic in the database.                     *)
(*                                                                         *)
(* Quantities are integers in units of 1/QtyScale, amounts of money are    *)
(* integers in units of 1/MoneyScale, dates are integers in seconds.  A    *)
(* nullable column holds <<>> for NULL and <<v>> for the value v.          *)
(***************************************************************************)
EXTENDS Integers, Sequences, FiniteSets, TLC

VARIABLES now, inventories, nextInventoryId, orders, order_items, nextOrderId,
          products, users, proc, calls, last, balance, roles, tokens, categories

vars == <<now, inventories, nextInventoryId, orders, order_items, nextOrderId,
          products, users, proc, calls, last, balance, roles, tokens, categories>>

----
\* Bounds of the model.
MaxTime == 1
MaxLots == 3
MaxStock == 1
MaxItems == 2
MaxCalls == 2
MaxReceived == 2
MaxBatch == 2
MaxProducts == 2
MaxTokens == 1
MaxAdvance == 3

\* Program constants.
DayLen == 86400
nearExpiryDays == 7
Tolerance == 100

\* Units: a quantity q stands for q / QtyScale, an amount a for a / MoneyScale.
QtyScale == 4
MoneyScale == 10000
\* DECIMAL(10, 2) keeps hundredths.
Cent == 100
\* A JavaScript number is an IEEE 754 double.
MantissaBits == 53

Procs == {1, 2}
Null == <<>>

ProductIds == {"P1", "P2", "P3"}
RequestProductIds == {"P1", "P2", "P3", "PX"}
UserIds == {"u1", "u0", "u9"}
StoreIds == {"S1", "S2"}
CartQuantities == {0, 2}
\* Checkout passes only quantities > 0 to ReduceInventoryQuantity.
DepleteQuantities == {2, 3}
\* grand_total of a request: 0, 1.635, 2.51, 2.511, 3.26.
GrandTotals == {0, 16350, 25100, 25110, 32600}

\* The stock-receiving requests: product, quantity, expiry date.
LotInputs ==
  [product_id : {"P1"}, quantity : {1, 3}, expiry_date : {Null, <<1>>}]
    \cup {[product_id |-> "P1", quantity |-> 3, expiry_date |-> <<10 * DayLen>>],
          [product_id |-> "P1", quantity |-> 3, expiry_date |-> <<-2 * DayLen>>],
          [product_id |-> "P1", quantity |-> 0, expiry_date |-> Null],
          [product_id |-> "P2", quantity |-> 3, expiry_date |-> Null],
          [product_id |-> "P3", quantity |-> 3, expiry_date |-> Null],
          [product_id |-> "PX", quantity |-> 3, expiry_date |-> Null]}

\* The stores table: id and store_code.
StoreCode(store_id) == IF store_id = "S1" THEN "AAA" ELSE "BBB"

----
\* Helpers over tables.

RECURSIVE SumQuantity(_)
SumQuantity(S) ==
  IF S = {} THEN 0
  ELSE LET l == CHOOSE x \in S : TRUE
       IN  l.quantity + SumQuantity(S \ {l})

Range(s) == {s[i] : i \in DOMAIN s}

\* A variant that rounds down.
FloorDiv(x, d) == x \div d

\* Math.ceil(x / d) for d > 0.
CeilDiv(x, d) == -((-x) \div d)

\* InventoryUseCase.CreateInventory: the status of a new lot.
ComputeStatus(expiry_date, t) ==
  IF expiry_date = Null THEN "active"
  ELSE LET daysUntilExpiry == CeilDiv(expiry_date[1] - t, DayLen)
       IN  IF daysUntilExpiry < 0 THEN "expired"
           ELSE IF daysUntilExpiry <= nearExpiryDays THEN "near_expiry"
           ELSE "active"

FindProduct(id) == {p \in products : p.id = id}
FindUser(id) == {u \in users : u.id = id}

\* A variant that leaves out the status condition of the query.
GetTotalInventoryQuantityAnyStatus(productId) ==
  SumQuantity({l \in inventories : l.product_id = productId})

\* InventoryRepository.GetTotalInventoryQuantity
GetTotalInventoryQuantity(productId) ==
  SumQuantity({l \in inventories :
                 l.product_id = productId /\ l.status \in {"active", "near_expiry"}})

\* A variant with plain ASC, which puts the rows without expiry date first.
OrderedBeforeNullsFirst(a, b) ==
  \/ a.expiry_date = Null /\ b.expiry_date # Null
  \/ a.expiry_date # Null /\ b.expiry_date # Null /\ a.expiry_date[1] < b.expiry_date[1]
  \/ a.expiry_date = b.expiry_date /\ a.created_at < b.created_at

\* ORDER BY expiry_date ASC NULLS LAST, created_at ASC: a strictly before b.
OrderedBefore(a, b) ==
  \/ a.expiry_date # Null /\ b.expiry_date = Null
  \/ a.expiry_date # Null /\ b.expiry_date # Null /\ a.expiry_date[1] < b.expiry_date[1]
  \/ a.expiry_date = b.expiry_date /\ a.created_at < b.created_at

\* A variant that selects the rows of every status.
AllocatableAnyStatus(tbl, productId) ==
  {l \in tbl : l.product_id = productId}

\* A variant that also leaves out the rows whose expiry date has passed.
AllocatableUnexpired(tbl, productId) ==
  {l \in tbl : /\ l.product_id = productId /\ l.status \in {"active", "near_expiry"}
               /\ (l.expiry_date = Null \/ l.expiry_date[1] >= now)}

\* The rows the query selects.
Allocatable(tbl, productId) ==
  {l \in tbl : l.product_id = productId /\ l.status \in {"active", "near_expiry"}}

\* InventoryRepository.FindByProductIdOrderedByExpiry: every sequence the
\* database may return; rows with equal sort keys come in any order.
FindByProductIdOrderedByExpiry(tbl, productId) ==
  LET S == Allocatable(tbl, productId)
      n == Cardinality(S)
  IN  {s \in [1..n -> S] :
         /\ \A i, j \in 1..n : i # j => s[i] # s[j]
         /\ \A i, j \in 1..n : i < j => ~OrderedBefore(s[j], s[i])}

----
\* Process state.

\* The expiry dates of the stock-receiving requests, in seconds.
ExpiryDates ==
  {<<-DayLen - 1>>, <<-DayLen>>, <<-1>>, <<0>>, <<7 * DayLen>>, <<7 * DayLen + 1>>,
   <<8 * DayLen>>, <<8 * DayLen + 1>>}

\* The bodies of POST /inventory; the route admits quantity >= 0 only.
LotRequests ==
  [product_id : {"P1"}, quantity : {3}, expiry_date : ExpiryDates, store_id : {""}]
    \cup [product_id : {"P1", "P3", "PX"}, quantity : {3}, expiry_date : {Null},
          store_id : {"", "S2", "SX"}]
    \cup {[product_id |-> "P1", quantity |-> 0, expiry_date |-> Null, store_id |-> "S2"]}

\* The rows of the files of POST /inventory/batch; a cell is <<>> when empty.
BatchRows ==
  [product_id : {"P1", "P3", "PX"}, quantity : {<<3>>}, expiry_date : {Null},
   store_id : {"", "S2"}]
    \cup {[product_id |-> "P1", quantity |-> <<-1>>, expiry_date |-> Null, store_id |-> ""],
          [product_id |-> "P1", quantity |-> <<>>, expiry_date |-> <<7 * DayLen + 1>>,
           store_id |-> "S1"],
          [product_id |-> "P1", quantity |-> <<3>>, expiry_date |-> <<0>>, store_id |-> ""]}

BatchFiles == UNION {[1..n -> BatchRows] : n \in 0..MaxBatch}

\* The ids of the products created after the start, in the order of their
\* creation.
NewProductIds == <<"N1", "N2", "N3", "N4">>
CategoryIds == {"C1"}

\* The bodies of POST /products and the rows of the files of
\* POST /products/batch, with a name and prices that pass the checks of
\* lines 92-107.  A SKU is a tuple: <<text>> when the caller gives it.
ProductRequests ==
  [sku : {Null, <<"K1">>, <<"K5">>}, store_id : {"", "S2"}, category_id : {"C1"}]
    \cup {[sku |-> <<"K5">>, store_id |-> "S1", category_id |-> "CX"],
          [sku |-> <<"K5">>, store_id |-> "SX", category_id |-> "C1"]}

ProductRows ==
  [sku : {Null, <<"K1">>, <<"K5">>}, store_id : {"", "S2"}, category_id : {"C1"}]

ProductFiles == UNION {[1..n -> ProductRows] : n \in 0..MaxBatch}

\* The roles and the categories of the seeded database.
RoleRows == {[id |-> "r40", level |-> 40], [id |-> "r99", level |-> 99]}
CategoryRows == {[id |-> 1, name |-> "a"]}

IdleProc ==
  [pc |-> "idle", kind |-> "none", userId |-> "",
   data |-> [items |-> <<>>, grand_total |-> 0, length |-> 0],
   itemIdx |-> 0, orderItems |-> <<>>, calculatedTotal |-> 0, order |-> Null, txItems |-> {},
   productId |-> "", quantityToReduce |-> 0, inventories |-> <<>>, idx |-> 0,
   remainingQuantity |-> 0, outcome |-> "none", report |-> Null,
   reduceError |-> "", reduced |-> 0, availableQuantity |-> 0,
   wrote |-> FALSE, invalid |-> FALSE, tblBefore |-> {},
   scope |-> "", reconciled |-> Null, inserted |-> 0, productsData |-> <<>>,
   minLevel |-> 0, roleLevel |-> Null]

\* The last direct call of ReduceInventoryQuantity that returned, when no lot
\* was received since: no such call.
NoCall == [productId |-> "", quantityToReduce |-> 0, outcome |-> "none", available |-> 0]

Init ==
  /\ now = 0
  /\ inventories = {}
  /\ nextInventoryId = 1
  /\ orders = {}
  /\ order_items = {}
  /\ nextOrderId = 1
  /\ products = {[id |-> "P1", store_id |-> "S1", selling_price |-> 50000,
                  sku |-> <<"K1">>, created_by |-> "u9"],
                 [id |-> "P2", store_id |-> "S1", selling_price |-> 32500,
                  sku |-> <<"K2">>, created_by |-> "u9"],
                 [id |-> "P3", store_id |-> "S2", selling_price |-> 50000,
                  sku |-> <<"K3">>, created_by |-> "u9"]}
  \* the users as AuthenticateMiddleware attaches them to a request, with the
  \* level of their role
  /\ users = {[id |-> "u1", store_id |-> "S1", level |-> 40],
              [id |-> "u0", store_id |-> "", level |-> 40],
              [id |-> "u9", store_id |-> "", level |-> 99]}
  /\ proc = [p \in Procs |-> IdleProc]
  /\ calls = 0
  /\ last = NoCall
  /\ balance = [p \in ProductIds |-> 0]
  /\ roles = RoleRows
  /\ tokens = {}
  /\ categories = CategoryRows

\* The clock advances.
Tick ==
  /\ now < MaxTime
  /\ now' = now + 1
  /\ UNCHANGED <<inventories, nextInventoryId, orders, order_items, nextOrderId,
                 products, users, proc, calls, last, balance, roles, tokens,
                 categories>>

----
\* The store whose products the user may stock: a user of level 99 names
\* it in the request, any other user has it assigned.
ResolvedStore(u, data) == IF u.level = 99 THEN data.store_id ELSE u.store_id

\* InventoryUseCase.CreateInventory, lines 62-118: the error it throws, or "".
CreateInventoryError(userId, data) ==
  IF data.product_id = "" THEN "ProductIdRequired"
  ELSE IF FindUser(userId) = {} THEN "UserNotFound"
  ELSE LET u == CHOOSE x \in users : x.id = userId
           storeId == ResolvedStore(u, data)
       IN  IF u.level = 99 /\ data.store_id = "" THEN "StoreIdRequired"
           ELSE IF u.level # 99 /\ u.store_id = "" THEN "UserHasNoStore"
           ELSE IF FindProduct(data.product_id) = {} THEN "ProductNotFound"
           ELSE IF storeId \notin StoreIds THEN "StoreNotFound"
           ELSE IF \E pr \in FindProduct(data.product_id) : pr.store_id # storeId
                THEN "ProductNotInStore"
           ELSE ""

\* InventoryUseCase.CreateInventoryBatch, lines 189-231: the error one entry
\* of the batch raises, or "".
BatchEntryError(u, data) ==
  LET inventoryStoreId == ResolvedStore(u, data)
  IN  IF data.product_id = "" THEN "ProductIdRequired"
      ELSE IF u.level = 99 /\ data.store_id = "" THEN "StoreIdRequired"
      ELSE IF inventoryStoreId \notin StoreIds THEN "StoreNotFound"
      ELSE IF FindProduct(data.product_id) = {} THEN "ProductNotFound"
      ELSE IF \E pr \in FindProduct(data.product_id) : pr.store_id # inventoryStoreId
           THEN "ProductNotInStore"
      ELSE ""

\* The first entry of the batch that raises an error, 0 when none does.
FirstFailing(u, productsData) ==
  LET failing == {i \in DOMAIN productsData : BatchEntryError(u, productsData[i]) # ""}
  IN  IF failing = {} THEN 0 ELSE CHOOSE i \in failing : \A j \in failing : i <= j

\* A variant that validates the first entry only.
CreateInventoryBatchErrorFirstOnly(userId, productsData) ==
  IF FindUser(userId) = {} THEN "UserNotFound"
  ELSE LET u == CHOOSE x \in users : x.id = userId
       IN  IF u.level # 99 /\ u.store_id = "" THEN "UserHasNoStore"
           ELSE IF u.level # 99 /\ u.store_id \notin StoreIds THEN "StoreNotFound"
           ELSE BatchEntryError(u, productsData[1])

\* InventoryUseCase.CreateInventoryBatch, lines 152-231: the error of the
\* first entry that fails, or "".
CreateInventoryBatchError(userId, productsData) ==
  IF FindUser(userId) = {} THEN "UserNotFound"
  ELSE LET u == CHOOSE x \in users : x.id = userId
       IN  IF u.level # 99 /\ u.store_id = "" THEN "UserHasNoStore"
           ELSE IF u.level # 99 /\ u.store_id \notin StoreIds THEN "StoreNotFound"
           ELSE IF FirstFailing(u, productsData) = 0 THEN ""
           ELSE BatchEntryError(u, productsData[FirstFailing(u, productsData)])

\* InventoryUseCase.CreateInventory followed by InventoryRepository.Create.
\* A request that fails a check inserts nothing.
CreateInventoryAccepted(userId, product_id) ==
  CreateInventoryError(userId, [product_id |-> product_id, store_id |-> ""]) = ""

CreateInventory(userId, product_id, quantity, expiry_date) ==
  /\ CreateInventoryAccepted(userId, product_id)
  /\ LET status == ComputeStatus(expiry_date, now)
         lot == [id |-> nextInventoryId, product_id |-> product_id, quantity |-> quantity,
                 expiry_date |-> expiry_date, status |-> status, created_at |-> now]
     IN  /\ inventories' = inventories \cup {lot}
         /\ balance' = [balance EXCEPT ![product_id] =
                          @ + (IF status = "expired" THEN 0 ELSE quantity)]
  /\ nextInventoryId' = nextInventoryId + 1
  /\ last' = NoCall
  /\ UNCHANGED <<now, orders, order_items, nextOrderId, products, users, proc, calls, roles, tokens,
                 categories>>

\* A request the use case rejects: nothing is inserted.
CreateInventoryRejected(userId, product_id) ==
  /\ ~CreateInventoryAccepted(userId, product_id)
  /\ UNCHANGED vars

----
\* InventoryRepository.ReduceInventoryQuantity

\* A variant that compares with < : a lot that equals the demand is updated
\* to quantity 0 and stays.
ReduceRowStrict(tbl, inventory, remainingQuantity) ==
  IF inventory.quantity < remainingQuantity
  THEN {l \in tbl : l.id # inventory.id}
  ELSE {IF l.id = inventory.id
          THEN [l EXCEPT !.quantity = inventory.quantity - remainingQuantity]
          ELSE l : l \in tbl}

\* A variant whose statements match no row.
ReduceRowNoMatch(tbl, inventory, remainingQuantity) == tbl

\* The statement issued for one row of the snapshot: destroy or update by id.
ReduceRow(tbl, inventory, remainingQuantity) ==
  IF inventory.quantity <= remainingQuantity
  THEN {l \in tbl : l.id # inventory.id}
  ELSE {IF l.id = inventory.id
          THEN [l EXCEPT !.quantity = inventory.quantity - remainingQuantity]
          ELSE l : l \in tbl}

\* remainingQuantity after one row.
ReduceRemaining(currentQuantity, remainingQuantity) ==
  IF currentQuantity <= remainingQuantity
  THEN remainingQuantity - currentQuantity
  ELSE 0

\* The process record when a call of ReduceInventoryQuantity begins.
BeginReduce(r, productId, quantityToReduce, tbl) ==
  [r EXCEPT !.pc = "rq_find", !.productId = productId,
            !.quantityToReduce = quantityToReduce, !.inventories = <<>>,
            !.idx = 0, !.remainingQuantity = 0, !.report = Null, !.tblBefore = tbl]

\* A variant in which Checkout swallows the error and goes on with its next
\* item.
ReduceThrowSwallowed(r, err) ==
  IF r.kind = "Checkout" /\ r.itemIdx < Len(r.data.items)
  THEN LET item == r.data.items[r.itemIdx + 1]
       IN  [r EXCEPT !.pc = "rq_find", !.itemIdx = r.itemIdx + 1, !.reduceError = err,
                     !.productId = item.product_id, !.quantityToReduce = item.quantity,
                     !.inventories = <<>>, !.idx = 0, !.remainingQuantity = 0]
  ELSE [r EXCEPT !.pc = "done", !.outcome = "ok", !.reduceError = err]

\* ReduceInventoryQuantity throws err; Checkout rethrows it (lines 161-169).
ReduceThrow(r, err) ==
  [r EXCEPT !.pc = "done",
            !.outcome = IF r.kind = "Checkout" THEN "FailedToReduceInventory" ELSE err,
            !.reduceError = err]

\* ReduceInventoryQuantity returns; Checkout goes on with its next item.
ReduceReturn(r, tbl) ==
  IF r.kind = "Checkout" /\ r.itemIdx < Len(r.data.items)
  THEN LET item == r.data.items[r.itemIdx + 1]
       IN  BeginReduce([r EXCEPT !.itemIdx = r.itemIdx + 1, !.reduced = r.itemIdx],
                       item.product_id, item.quantity, tbl)
  ELSE [r EXCEPT !.pc = "done", !.outcome = "ok", !.reduceError = "",
                 !.reduced = IF r.kind = "Checkout" THEN r.itemIdx ELSE 0]

\* After the loop (lines 254-264).
ReduceEnd(r, tbl) ==
  IF r.remainingQuantity > 0
  THEN ReduceThrow([r EXCEPT !.report =
                      <<[requested |-> r.quantityToReduce,
                         available |-> r.quantityToReduce - r.remainingQuantity,
                         missing |-> r.remainingQuantity]>>],
                   "InsufficientInventory")
  ELSE ReduceReturn(r, tbl)

Succeeded(r0, r1) == r1.pc # "done" \/ r1.outcome = "ok"

\* A direct call of ReduceInventoryQuantity(productId, quantityToReduce).
Deplete(p, productId, quantityToReduce) ==
  /\ proc[p].pc = "idle"
  /\ calls < MaxCalls
  /\ calls' = calls + 1
  /\ proc' = [proc EXCEPT ![p] =
                BeginReduce([@ EXCEPT !.kind = "Deplete"],
                            productId, quantityToReduce, inventories)]
  /\ UNCHANGED <<now, inventories, nextInventoryId, orders, order_items, nextOrderId,
                 products, users, last, balance, roles, tokens,
                 categories>>

\* Lines 211-223: the snapshot is read; an empty snapshot throws, a demand
\* that is not positive leaves the loop at once.
ReduceFind(p) ==
  /\ proc[p].pc = "rq_find"
  /\ \E invs \in FindByProductIdOrderedByExpiry(inventories, proc[p].productId) :
       LET r == [proc[p] EXCEPT !.inventories = invs, !.idx = 1,
                                !.remainingQuantity = proc[p].quantityToReduce]
           r1 == IF Len(invs) = 0 THEN ReduceThrow(r, "ProductHasNoInventory")
                 ELSE IF r.remainingQuantity <= 0 THEN ReduceEnd(r, inventories)
                 ELSE [r EXCEPT !.pc = "rq_write"]
       IN  /\ proc' = [proc EXCEPT ![p] = r1]
           /\ balance' = IF r1.pc # "rq_write" /\ Succeeded(r, r1)
                         THEN [balance EXCEPT ![r.productId] = @ - r.quantityToReduce]
                         ELSE balance
  /\ UNCHANGED <<now, inventories, nextInventoryId, orders, order_items, nextOrderId,
                 products, users, calls, last, roles, tokens,
                 categories>>

\* Lines 225-252: one row of the snapshot is destroyed or updated, then the
\* loop goes on to the next row or ends.
ReduceWrite(p) ==
  /\ proc[p].pc = "rq_write"
  /\ LET r == proc[p]
         inventory == r.inventories[r.idx]
         tbl == ReduceRow(inventories, inventory, r.remainingQuantity)
         r1 == [r EXCEPT !.remainingQuantity =
                           ReduceRemaining(inventory.quantity, r.remainingQuantity),
                         !.idx = r.idx + 1, !.wrote = TRUE]
         r2 == IF r1.idx > Len(r1.inventories) \/ r1.remainingQuantity <= 0
               THEN ReduceEnd(r1, tbl)
               ELSE r1
     IN  /\ inventories' = tbl
         /\ proc' = [proc EXCEPT ![p] = r2]
         /\ balance' = IF r2.pc # "rq_write" /\ Succeeded(r1, r2)
                        THEN [balance EXCEPT ![r.productId] = @ - r.quantityToReduce]
                        ELSE balance
  /\ UNCHANGED <<now, nextInventoryId, orders, order_items, nextOrderId,
                 products, users, calls, last, roles, tokens,
                 categories>>

\* The handler has answered; the process is free again.
Return(p) ==
  /\ proc[p].pc = "done"
  /\ proc' = [proc EXCEPT ![p] = IdleProc]
  /\ last' = IF proc[p].kind = "Deplete"
             THEN [productId |-> proc[p].productId,
                   quantityToReduce |-> proc[p].quantityToReduce,
                   outcome |-> proc[p].outcome,
                   available |-> SumQuantity(Allocatable(proc[p].tblBefore, proc[p].productId))]
             ELSE last
  /\ UNCHANGED <<now, inventories, nextInventoryId, orders, order_items, nextOrderId,
                 products, users, calls, balance, roles, tokens,
                 categories>>

\* A direct call of GetTotalInventoryQuantity(productId).
Available(p, productId) ==
  /\ proc[p].pc = "idle"
  /\ proc' = [proc EXCEPT ![p] = [IdleProc EXCEPT !.pc = "done", !.kind = "Available",
                                                  !.productId = productId, !.outcome = "ok",
                                                  !.availableQuantity =
                                                     GetTotalInventoryQuantity(productId)]]
  /\ UNCHANGED <<now, inventories, nextInventoryId, orders, order_items, nextOrderId,
                 products, users, calls, last, balance, roles, tokens,
                 categories>>

----
\* OrderUseCase.Checkout

\* Checkout throws before anything was persisted, or after: the locals go.
CheckoutThrow(r, err) ==
  [IdleProc EXCEPT !.pc = "done", !.kind = "Checkout", !.outcome = err,
                   !.wrote = r.wrote, !.invalid = r.invalid,
                   !.scope = r.scope, !.reconciled = r.reconciled]

\* Lines 56-90, in the order of the code.
RequestError(userId, grand_total, length) ==
  IF length = 0 THEN "ItemsRequired"
  ELSE IF grand_total <= 0 THEN "GrandTotalInvalid"
  ELSE IF FindUser(userId) = {} THEN "UserNotFound"
  ELSE IF \E u \in FindUser(userId) : u.store_id = "" THEN "UserHasNoStore"
  ELSE ""

\* A variant without the store check of lines 108-114.
ItemErrorAnyStore(item, store_id, availableQuantity) ==
  IF item.quantity <= 0 THEN "QuantityInvalid"
  ELSE IF FindProduct(item.product_id) = {} THEN "ProductNotFound"
  ELSE IF item.quantity > availableQuantity THEN "InsufficientInventory"
  ELSE ""

\* Lines 97-120, in the order of the code.
ItemError(item, store_id, availableQuantity) ==
  IF item.quantity <= 0 THEN "QuantityInvalid"
  ELSE IF FindProduct(item.product_id) = {} THEN "ProductNotFound"
  ELSE IF \E pr \in FindProduct(item.product_id) : pr.store_id # store_id
       THEN "ProductNotInStore"
  ELSE IF item.quantity > availableQuantity THEN "InsufficientInventory"
  ELSE ""

Abs(x) == IF x < 0 THEN -x ELSE x

RECURSIVE Pow2(_)
Pow2(e) == IF e = 0 THEN 1 ELSE 2 * Pow2(e - 1)

RECURSIVE Pow2Mod(_, _)
Pow2Mod(e, m) == IF e = 0 THEN 1 % m ELSE (2 * Pow2Mod(e - 1, m)) % m

\* The decimal a / MoneyScale, a > 0, read as a double is m * 2^(-e) with
\* 2^(MantissaBits - 1) <= m < 2^MantissaBits: e is MantissaBits - 1 minus
\* the binary logarithm of the decimal, rounded down.
RECURSIVE Log2Floor(_, _)
Log2Floor(a, b) ==
  IF a >= 2 * b THEN 1 + Log2Floor(a, 2 * b)
  ELSE IF a < b THEN Log2Floor(2 * a, b) - 1
  ELSE 0

DoubleExponent(a) == (MantissaBits - 1) - Log2Floor(a, MoneyScale)

\* The double nearest to the decimal a / MoneyScale differs from it by
\* DoubleError(a) / (MoneyScale * 2^DoubleExponent(a)): the remainder of
\* a * 2^e by MoneyScale decides whether the mantissa is rounded down or up.
\* (A remainder of exactly MoneyScale / 2 does not occur: 2^4 divides the
\* remainder and not MoneyScale / 2.)
DoubleError(a) ==
  LET r == ((a % MoneyScale) * Pow2Mod(DoubleExponent(a), MoneyScale)) % MoneyScale
  IN  IF 2 * r < MoneyScale THEN -r ELSE MoneyScale - r

\* x / 2^ex > y / 2^ey
ScaledGreater(x, ex, y, ey) ==
  IF ex <= ey THEN x * Pow2(ey - ex) > y ELSE x > y * Pow2(ex - ey)

\* A variant without the absolute value.
GrandTotalMismatchSigned(calculatedTotal, grand_total) ==
  calculatedTotal - grand_total > Tolerance

\* Line 134: Math.abs(calculatedTotal - data.grand_total) > 0.01 on doubles.
\* calculatedTotal is a sum of products of multiples of 1/4, which doubles
\* hold exactly; grand_total and 0.01 are the doubles nearest to the
\* decimals of the request and of the source, and the subtraction of the
\* two operands is exact.  The decimals decide unless they differ by the
\* tolerance exactly; then the rounding errors of the two doubles decide.
GrandTotalMismatch(calculatedTotal, grand_total) ==
  LET d == calculatedTotal - grand_total
      e1 == DoubleExponent(grand_total)
      e2 == DoubleExponent(Tolerance)
      s1 == DoubleError(grand_total)
      s2 == DoubleError(Tolerance)
  IN  IF Abs(d) # Tolerance THEN Abs(d) > Tolerance
      ELSE IF d < 0 THEN ScaledGreater(s1, e1, s2, e2)
      ELSE ScaledGreater(-s1, e1, s2, e2)

\* Line 123: parseFloat(product.selling_price.toString()) * item.quantity
ItemTotalPrice(item) ==
  LET product == CHOOSE pr \in products : pr.id = item.product_id
  IN  (product.selling_price * item.quantity) \div QtyScale

\* What a DECIMAL(10, 2) column keeps of an amount: the nearest hundredth,
\* halves away from zero.
Decimal2(a) ==
  LET unit == MoneyScale \div Cent
      q == Abs(a) \div unit
      r == Abs(a) % unit
      n == IF 2 * r >= unit THEN (q + 1) * unit ELSE q * unit
  IN  IF a < 0 THEN -n ELSE n

\* generateInvoiceNumber (lines 34-50): the store code and the second.
GenerateInvoiceNumber(store_code, t) == <<store_code, t>>

\* The request arrives: its total and the length of its cart are fixed; the
\* loop reads item k of the cart when it reaches it, and CheckoutItem draws
\* it then.
Checkout(p, userId, grand_total, length) ==
  /\ proc[p].pc = "idle"
  /\ calls < MaxCalls
  /\ calls' = calls + 1
  /\ LET err == RequestError(userId, grand_total, length)
         r == [proc[p] EXCEPT !.kind = "Checkout", !.userId = userId,
                              !.data = [items |-> <<>>, grand_total |-> grand_total,
                                        length |-> length],
                              !.invalid = (length = 0 \/ grand_total <= 0
                                           \/ \E u \in users : u.id = userId /\ u.store_id = ""),
                              !.scope = IF /\ length > 0 /\ grand_total > 0
                                           /\ \E u \in users : u.id = userId /\ u.store_id = ""
                                        THEN "nostore" ELSE ""]
     IN  proc' = [proc EXCEPT ![p] =
                    IF err # "" THEN CheckoutThrow(r, err)
                    ELSE [r EXCEPT !.pc = "co_item", !.itemIdx = 1]]
  /\ UNCHANGED <<now, inventories, nextInventoryId, orders, order_items, nextOrderId,
                 products, users, last, balance, roles, tokens,
                 categories>>

\* Lines 139-151 up to the first statement of OrderRepository.Create.
BeginCreate(r, t) ==
  LET store_id == (CHOOSE u \in users : u.id = r.userId).store_id
  IN  [r EXCEPT !.pc = "oc_order",
                !.order = <<[id |-> 0,
                             invoice_number |-> GenerateInvoiceNumber(StoreCode(store_id), t),
                             total_price |-> r.calculatedTotal,
                             store_id |-> store_id,
                             created_by |-> r.userId,
                             lines |-> Len(r.orderItems)]>>]

\* One iteration of the loop of lines 96-131; after the last one, the
\* reconciliation of line 134.
CheckoutItem(p, item) ==
  /\ proc[p].pc = "co_item"
  /\ LET r == proc[p]
         store_id == (CHOOSE u \in users : u.id = r.userId).store_id
         availableQuantity == GetTotalInventoryQuantity(item.product_id)
         err == ItemError(item, store_id, availableQuantity)
         short == SumQuantity({l \in inventories : l.product_id = item.product_id
                                                   /\ l.status # "expired"}) < item.quantity
         bad == \/ item.quantity <= 0
                \/ ~\E pr \in products : pr.id = item.product_id /\ pr.store_id = store_id
                \/ short
         foreign == /\ item.quantity > 0
                    /\ \E pr \in products : pr.id = item.product_id /\ pr.store_id # store_id
         r1 == [r EXCEPT !.data.items = Append(@, item), !.invalid = @ \/ bad,
                         !.scope = IF foreign THEN "foreign" ELSE @]
         r2 == [r1 EXCEPT !.orderItems = Append(@, [product_id |-> item.product_id,
                                                    quantity |-> item.quantity,
                                                    total_price |-> ItemTotalPrice(item)]),
                          !.calculatedTotal = @ + ItemTotalPrice(item),
                          !.itemIdx = @ + 1]
         off == Abs(r2.calculatedTotal - r.data.grand_total) > Tolerance
     IN  proc' = [proc EXCEPT ![p] =
                    IF err # "" THEN CheckoutThrow(r1, err)
                    ELSE IF r2.itemIdx <= r.data.length THEN r2
                    ELSE LET r3 == [r2 EXCEPT !.invalid = @ \/ off,
                                              !.reconciled = <<<<r2.calculatedTotal,
                                                                r2.data.grand_total>>>>]
                         IN  IF GrandTotalMismatch(r2.calculatedTotal, r2.data.grand_total)
                             THEN CheckoutThrow(r3, "GrandTotalMismatch")
                             ELSE BeginCreate(r3, now)]
  /\ UNCHANGED <<now, inventories, nextInventoryId, orders, order_items, nextOrderId,
                 products, users, calls, last, balance, roles, tokens,
                 categories>>

----
\* OrderRepository.Create

\* A variant that ignores the transaction.
InsertOrderNoTransaction(tbl, order, transaction) == tbl \cup {order}

\* Order.create(data, { transaction }): a row written in a transaction is
\* not in the table before the commit.
InsertOrder(tbl, order, transaction) ==
  IF transaction THEN tbl ELSE tbl \cup {order}

\* OrderItem.bulkCreate(orderItemsData, { transaction })
InsertOrderItems(tbl, rows, transaction) ==
  IF transaction THEN tbl ELSE tbl \cup rows

\* A variant without the unique index.
InvoiceNeverTaken(invoice_number) == FALSE

\* The invoice number is unique (Order model, line 44).
InvoiceTaken(invoice_number) ==
  \E o \in orders : o.invoice_number = invoice_number

\* Another open transaction holds the same invoice number: the insert waits.
InvoiceLocked(p, invoice_number) ==
  \E q \in Procs \ {p} :
     /\ proc[q].pc \in {"oc_items", "oc_commit", "oc_rollback"}
     /\ proc[q].order # Null
     /\ proc[q].order[1].id # 0
     /\ proc[q].order[1].invoice_number = invoice_number

\* Line 61.
OrderCreate(p) ==
  /\ proc[p].pc = "oc_order"
  /\ ~InvoiceLocked(p, proc[p].order[1].invoice_number)
  /\ LET r == proc[p]
         order == [r.order[1] EXCEPT !.id = nextOrderId, !.total_price = Decimal2(@)]
     IN  IF InvoiceTaken(order.invoice_number)
         THEN /\ proc' = [proc EXCEPT ![p] = [r EXCEPT !.pc = "oc_rollback"]]
              /\ UNCHANGED <<orders, nextOrderId, last>>
         ELSE /\ proc' = [proc EXCEPT ![p] = [r EXCEPT !.pc = "oc_items", !.order = <<order>>]]
              /\ orders' = InsertOrder(orders, order, TRUE)
              /\ nextOrderId' = nextOrderId + 1
  /\ UNCHANGED <<now, inventories, nextInventoryId, order_items,
                 products, users, calls, last, balance, roles, tokens,
                 categories>>

\* Lines 64-68.  The statement can fail (a constraint, a lost connection).
OrderItemsCreate(p, ok) ==
  /\ proc[p].pc = "oc_items"
  /\ LET r == proc[p]
         orderItemsData == {[order_id |-> r.order[1].id, line |-> i,
                             product_id |-> r.orderItems[i].product_id,
                             quantity |-> r.orderItems[i].quantity,
                             total_price |-> Decimal2(r.orderItems[i].total_price)] :
                            i \in DOMAIN r.orderItems}
     IN  IF ok
         THEN /\ proc' = [proc EXCEPT ![p] = [r EXCEPT !.pc = "oc_commit",
                                                        !.txItems = orderItemsData]]
              /\ order_items' = InsertOrderItems(order_items, orderItemsData, TRUE)
         ELSE /\ proc' = [proc EXCEPT ![p] = [r EXCEPT !.pc = "oc_rollback"]]
              /\ UNCHANGED order_items
  /\ UNCHANGED <<now, inventories, nextInventoryId, orders, nextOrderId,
                 products, users, calls, last, balance, roles, tokens,
                 categories>>

\* Line 70, then lines 153-156 of Checkout: the first item's depletion begins.
OrderCommit(p) ==
  /\ proc[p].pc = "oc_commit"
  /\ LET r == proc[p]
         item == r.data.items[1]
     IN  /\ orders' = orders \cup {r.order[1]}
         /\ order_items' = order_items \cup r.txItems
         /\ proc' = [proc EXCEPT ![p] =
                       BeginReduce([r EXCEPT !.itemIdx = 1, !.wrote = TRUE, !.txItems = {},
                                             !.orderItems = <<>>, !.calculatedTotal = 0,
                                             !.data.grand_total = 0, !.reconciled = Null],
                                   item.product_id, item.quantity, inventories)]
  /\ UNCHANGED <<now, inventories, nextInventoryId, nextOrderId,
                 products, users, calls, last, balance, roles, tokens,
                 categories>>

\* Lines 88-91: the transaction is rolled back and the error rethrown.
OrderRollback(p) ==
  /\ proc[p].pc = "oc_rollback"
  /\ proc' = [proc EXCEPT ![p] = CheckoutThrow(proc[p], "OrderCreateFailed")]
  /\ UNCHANGED <<now, inventories, nextInventoryId, orders, order_items, nextOrderId,
                 products, users, calls, last, balance, roles, tokens,
                 categories>>

----
\* The steps of a checkout handled by process p.
CheckoutStep(p) ==
  \/ \E userId \in UserIds, grand_total \in GrandTotals, length \in 0..MaxItems :
       Checkout(p, userId, grand_total, length)
  \/ \E item \in [product_id : RequestProductIds, quantity : CartQuantities] :
       CheckoutItem(p, item)
  \/ OrderCreate(p)
  \/ \E ok \in BOOLEAN : OrderItemsCreate(p, ok)
  \/ OrderCommit(p)
  \/ OrderRollback(p)
  \/ ReduceFind(p)
  \/ ReduceWrite(p)
  \/ Return(p)

\* A stock-receiving request, while fewer than max lots were received.
Receive(max) ==
  \E userId \in UserIds, l \in LotInputs :
     \/ nextInventoryId <= max /\ CreateInventory(userId, l.product_id, l.quantity, l.expiry_date)
     \/ nextInventoryId <= max /\ CreateInventoryRejected(userId, l.product_id)

\* Handlers interleave at every statement.
Next ==
  \/ Tick
  \/ Receive(MaxStock)
  \/ \E p \in Procs : CheckoutStep(p)

Spec == Init /\ [][Next]_vars

AllIdle == \A p \in Procs : proc[p].pc = "idle"

\* The ledger alone, one request at a time: lots are received and
\* ReduceInventoryQuantity is called, each call running to its end.
LedgerNext ==
  \/ AllIdle /\ Tick
  \/ AllIdle /\ Receive(MaxLots)
  \/ \E productId \in {"P1", "P2"}, quantityToReduce \in DepleteQuantities :
       AllIdle /\ Deplete(1, productId, quantityToReduce)
  \/ \E productId \in {"P1", "PX"} : AllIdle /\ Available(1, productId)
  \/ ReduceFind(1)
  \/ ReduceWrite(1)
  \/ Return(1)

LedgerSpec == Init /\ [][LedgerNext]_vars

----
\* The catalog: POST /products and POST /products/batch.

CategoryCode(category_id) == "CAT"

\* A variant whose timestamp has the minute too.
GenerateSkuWithMinute(store_code, category_code, t) ==
  <<store_code, category_code, t \div DayLen, (t % DayLen) \div 3600, (t % 3600) \div 60, t % 60>>

\* ProductUseCase.generateSku: store code, category code and the time as
\* yyyymmddHHss, that is the day, the hour and the seconds of the minute.
GenerateSku(store_code, category_code, t) ==
  <<store_code, category_code, t \div DayLen, (t % DayLen) \div 3600, t % 60>>

\* ProductRepository.FindBySku
FindBySku(sku) == {pr \in products : pr.sku = sku}

\* The checks of ProductUseCase.CreateProduct before the SKU, lines 110-147,
\* which the loop of CreateProductsBatch makes for each entry (lines
\* 243-269): the error thrown, or "".
ProductStoreError(u, data) ==
  LET storeId == ResolvedStore(u, data)
  IN  IF u.level = 99 /\ data.store_id = "" THEN "StoreIdRequired"
      ELSE IF u.level # 99 /\ u.store_id = "" THEN "UserHasNoStore"
      ELSE IF storeId \notin StoreIds THEN "StoreNotFound"
      ELSE IF data.category_id \notin CategoryIds THEN "CategoryNotFound"
      ELSE ""

\* Lines 149-162 and 271-283: a SKU the caller gives must not be in the
\* table.
ProductError(u, data) ==
  IF ProductStoreError(u, data) # "" THEN ProductStoreError(u, data)
  ELSE IF data.sku # Null /\ FindBySku(data.sku) # {} THEN "DuplicateSku"
  ELSE ""

\* Lines 169-174 and 285-291: the row to insert is the request with the
\* SKU, the prices and the creator; its store_id is the request's.
ProductData(u, data, t) ==
  [store_id |-> data.store_id, selling_price |-> 50000,
   sku |-> IF data.sku = Null
           THEN GenerateSku(StoreCode(ResolvedStore(u, data)),
                            CategoryCode(data.category_id), t)
           ELSE data.sku,
   created_by |-> u.id]

\* The products created since the start, and the rows about to be inserted.
Created == {pr \in products : \E i \in DOMAIN NewProductIds : NewProductIds[i] = pr.id}
RECURSIVE InFlight(_)
InFlight(k) == IF k = 0 THEN 0 ELSE Len(proc[k].productsData) + InFlight(k - 1)

\* The request gives a SKU that is in the table, or that an earlier row of
\* the same file gives, and passes the other checks.
SkuTaken(u, rows) ==
  /\ \A i \in DOMAIN rows : ProductStoreError(u, rows[i]) = ""
  /\ \E i \in DOMAIN rows :
       /\ rows[i].sku # Null
       /\ \/ FindBySku(rows[i].sku) # {}
          \/ \E j \in 1..(i - 1) : rows[j].sku = rows[i].sku

\* The handler has validated the request: it ends with the error, or goes
\* on to insert the rows.
ProductValidated(kind, u, rows, err, productsData) ==
  [IdleProc EXCEPT !.pc = IF err = "" THEN "pp_insert" ELSE "done",
                   !.kind = kind, !.outcome = IF err = "" THEN "none" ELSE err,
                   !.userId = u.id,
                   !.data.length = Len(rows),
                   !.invalid = (u.level = 99 /\ \E i \in DOMAIN rows : rows[i].store_id = ""),
                   !.scope = IF SkuTaken(u, rows) THEN "skutaken" ELSE "",
                   !.productsData = IF err = "" THEN productsData ELSE <<>>]

\* POST /products: the route refuses a user without store below level 99;
\* CreateProduct validates the request and calls ProductRepository.Create.
PostProduct(p, userId, body) ==
  /\ proc[p].pc = "idle"
  /\ Cardinality(Created) + InFlight(Cardinality(Procs)) + 1 <= MaxProducts
  /\ LET u == CHOOSE x \in users : x.id = userId
         err == IF u.level # 99 /\ u.store_id = "" THEN "UserHasNoStore"
                ELSE ProductError(u, body)
     IN  proc' = [proc EXCEPT ![p] =
                    ProductValidated("CreateProduct", u, <<body>>, err,
                                     <<ProductData(u, body, now)>>)]
  /\ UNCHANGED <<now, inventories, nextInventoryId, orders, order_items, nextOrderId,
                 products, users, calls, last, balance, roles, tokens,
                 categories>>

\* Lines 201-224 of the route: a row of the file becomes an entry for the
\* use case; below level 99 the store is the user's.
ProductRowData(u, row) ==
  [row EXCEPT !.store_id = IF u.level = 99 THEN row.store_id ELSE u.store_id]

\* The first entry of the file that raises an error, 0 when none does.
FirstFailingProduct(u, entries) ==
  LET failing == {i \in DOMAIN entries : ProductError(u, entries[i]) # ""}
  IN  IF failing = {} THEN 0 ELSE CHOOSE i \in failing : \A j \in failing : i <= j

\* POST /products/batch: the route's checks, then CreateProductsBatch
\* validates each entry against the table and calls
\* ProductRepository.CreateMany with all of them.
PostProductsBatch(p, userId, rows) ==
  /\ proc[p].pc = "idle"
  /\ Cardinality(Created) + InFlight(Cardinality(Procs)) + Len(rows) <= MaxProducts
  /\ LET u == CHOOSE x \in users : x.id = userId
         entries == [i \in DOMAIN rows |-> ProductRowData(u, rows[i])]
         k == FirstFailingProduct(u, entries)
         err == IF Len(rows) = 0 THEN "NoData"
                ELSE IF u.level = 99 /\ \E i \in DOMAIN rows : rows[i].store_id = ""
                     THEN "StoreIdRequired"
                ELSE IF u.level # 99 /\ u.store_id = "" THEN "UserHasNoStore"
                ELSE IF k = 0 THEN ""
                ELSE ProductError(u, entries[k])
     IN  proc' = [proc EXCEPT ![p] =
                    ProductValidated("CreateProductsBatch", u, entries, err,
                                     [i \in DOMAIN entries |-> ProductData(u, entries[i], now)])]
  /\ UNCHANGED <<now, inventories, nextInventoryId, orders, order_items, nextOrderId,
                 products, users, calls, last, balance, roles, tokens,
                 categories>>

\* The unique index on products.sku refuses the statement when a row's SKU
\* is in the table or is given by two of the rows.
UniqueViolation(rows) ==
  \/ \E i \in DOMAIN rows : FindBySku(rows[i].sku) # {}
  \/ \E i, j \in DOMAIN rows : i # j /\ rows[i].sku = rows[j].sku

\* ProductRepository.Create and CreateMany: one INSERT statement of all the
\* rows, which the unique index on sku can refuse.
ProductInsert(p) ==
  /\ proc[p].pc = "pp_insert"
  /\ LET r == proc[p]
         n == Cardinality(Created)
         rows == {[id |-> NewProductIds[n + i], store_id |-> r.productsData[i].store_id,
                   selling_price |-> r.productsData[i].selling_price,
                   sku |-> r.productsData[i].sku,
                   created_by |-> r.productsData[i].created_by] :
                  i \in DOMAIN r.productsData}
     IN  IF UniqueViolation(r.productsData)
         THEN /\ proc' = [proc EXCEPT ![p] = [r EXCEPT !.pc = "done",
                                                        !.outcome = "UniqueConstraintError",
                                                        !.productsData = <<>>]]
              /\ UNCHANGED products
         ELSE /\ proc' = [proc EXCEPT ![p] = [r EXCEPT !.pc = "done", !.outcome = "ok",
                                                        !.inserted = Len(r.productsData),
                                                        !.productsData = <<>>]]
              /\ products' = products \cup rows
  /\ UNCHANGED <<now, inventories, nextInventoryId, orders, order_items, nextOrderId,
                 users, calls, last, balance, roles, tokens,
                 categories>>

\* Requests to create products, handled concurrently.
CatalogNext ==
  \/ Tick
  \/ \E p \in Procs, userId \in UserIds, body \in ProductRequests :
       PostProduct(p, userId, body)
  \/ \E p \in Procs, userId \in UserIds, rows \in ProductFiles :
       PostProductsBatch(p, userId, rows)
  \/ \E p \in Procs : ProductInsert(p)
  \/ \E p \in Procs : Return(p)

CatalogSpec == Init /\ [][CatalogNext]_vars

----
\* Stock receiving: POST /inventory and POST /inventory/batch.

\* The entry names no product of the store the request is made for.
EntryInvalid(userId, data) ==
  \A u \in FindUser(userId) :
    ~\E pr \in products : pr.id = data.product_id /\ pr.store_id = ResolvedStore(u, data)

\* The lot InventoryRepository.Create or CreateBatch inserts for an entry.
NewLot(id, data, t) ==
  [id |-> id, product_id |-> data.product_id, quantity |-> data.quantity,
   expiry_date |-> data.expiry_date, status |-> ComputeStatus(data.expiry_date, t),
   created_at |-> t]

\* The handler's answer, with what the request was and what it inserted.
ReceiveDone(kind, err, invalid, length, inserted) ==
  [IdleProc EXCEPT !.pc = "done", !.kind = kind, !.outcome = IF err = "" THEN "ok" ELSE err,
                   !.invalid = invalid, !.data.length = length, !.inserted = inserted]

\* The rows are inserted by one statement, or none is.
InsertLots(newLots) ==
  /\ inventories' = inventories \cup newLots
  /\ nextInventoryId' = nextInventoryId + Cardinality(newLots)
  /\ balance' = [productId \in ProductIds |->
                   balance[productId]
                     + SumQuantity({l \in newLots : l.product_id = productId
                                                    /\ l.status # "expired"})]

\* POST /inventory: the route refuses a user without store below level 99,
\* then CreateInventory validates and InventoryRepository.Create inserts.
PostInventory(p, userId, body) ==
  /\ proc[p].pc = "idle"
  /\ LET u == CHOOSE x \in users : x.id = userId
         err == IF u.level # 99 /\ u.store_id = "" THEN "UserHasNoStore"
                ELSE CreateInventoryError(userId, body)
         newLots == IF err = "" THEN {NewLot(nextInventoryId, body, now)} ELSE {}
     IN  /\ nextInventoryId + Cardinality(newLots) <= MaxReceived + 1
         /\ InsertLots(newLots)
         /\ proc' = [proc EXCEPT ![p] =
                       ReceiveDone("CreateInventory", err, EntryInvalid(userId, body),
                                   1, Cardinality(newLots))]
  /\ last' = NoCall
  /\ UNCHANGED <<now, orders, order_items, nextOrderId, products, users, calls, roles, tokens,
                 categories>>

\* The file parser: a row of the file becomes a row of numbers; an empty
\* cell reads as 0.
ParseInventoryRow(row) ==
  [row EXCEPT !.quantity = IF @ = <<>> THEN 0 ELSE @[1]]

\* Lines 214-252 of the route: a row becomes an entry for the use case.
InventoryItem(u, row) ==
  [product_id |-> row.product_id, quantity |-> row.quantity,
   expiry_date |-> row.expiry_date,
   store_id |-> IF u.level = 99 THEN row.store_id ELSE u.store_id]

\* POST /inventory/batch: the file is parsed, the route's checks are made,
\* CreateInventoryBatch validates every entry and then
\* InventoryRepository.CreateBatch inserts them all.
PostInventoryBatch(p, userId, file) ==
  /\ proc[p].pc = "idle"
  /\ LET u == CHOOSE x \in users : x.id = userId
         rows == [i \in DOMAIN file |-> ParseInventoryRow(file[i])]
         inventoryData == [i \in DOMAIN rows |-> InventoryItem(u, rows[i])]
         err == IF Len(rows) = 0 THEN "NoData"
                ELSE IF u.level = 99 /\ \E i \in DOMAIN rows : rows[i].store_id = ""
                     THEN "StoreIdRequired"
                ELSE IF u.level # 99 /\ u.store_id = "" THEN "UserHasNoStore"
                ELSE CreateInventoryBatchError(userId, inventoryData)
         newLots == IF err = "" THEN {NewLot(nextInventoryId + i - 1, inventoryData[i], now) :
                                        i \in DOMAIN inventoryData}
                    ELSE {}
         invalid == \E i \in DOMAIN rows : EntryInvalid(userId, rows[i])
     IN  /\ nextInventoryId + Cardinality(newLots) <= MaxReceived + 1
         /\ InsertLots(newLots)
         /\ proc' = [proc EXCEPT ![p] =
                       ReceiveDone("CreateInventoryBatch", err, invalid,
                                   Len(rows), Cardinality(newLots))]
  /\ last' = NoCall
  /\ UNCHANGED <<now, orders, order_items, nextOrderId, products, users, calls, roles, tokens,
                 categories>>

\* Lots are received, by single requests and by files, one request at a
\* time.
ReceivingNext ==
  \/ Tick
  \/ \E userId \in UserIds, body \in LotRequests : PostInventory(1, userId, body)
  \/ \E userId \in UserIds, file \in BatchFiles : PostInventoryBatch(1, userId, file)
  \/ Return(1)

ReceivingSpec == Init /\ [][ReceivingNext]_vars

----
\* Changes to the catalog: PUT /products/:id, DELETE /products/:id and
\* DELETE /products/bulk.

\* The bodies of PUT /products/:id: the fields to change, Null when absent.
UpdateRequests == [sku : {Null, <<"K1">>, <<"K9">>}, selling_price : {Null, <<10000>>}]

\* The id lists of DELETE /products/bulk.
BulkIds == {{"P1"}, {"P3"}, {"PX"}, {"P1", "P3"}, {"P2", "PX"}}

\* The handler's answer, with what the request aimed at and did: foreign
\* when a user below level 99 aimed at a product of another store, changed
\* when a product or a lot was changed or removed.
MutationDone(kind, userId, ids, err, changed) ==
  LET u == CHOOSE x \in users : x.id = userId
  IN  [IdleProc EXCEPT !.pc = "done", !.kind = kind,
                       !.outcome = IF err = "" THEN "ok" ELSE err,
                       !.scope = IF /\ u.level # 99
                                    /\ \E pr \in products :
                                         pr.id \in ids /\ pr.store_id # u.store_id
                                 THEN "foreign" ELSE "",
                       !.wrote = changed]

\* The route's check (lines 264-267), then ProductUseCase.UpdateProduct and
\* ProductRepository.Update: the error, or "".
UpdateProductError(userId, id, data) ==
  LET u == CHOOSE x \in users : x.id = userId
  IN  IF u.level # 99 /\ u.store_id = "" THEN "UserHasNoStore"
      ELSE IF FindProduct(id) = {} THEN "ProductNotFound"
      ELSE IF data.sku # Null /\ \E pr \in FindBySku(data.sku) : pr.id # id
           THEN "UniqueConstraintError"
      ELSE ""

\* Product.update(data, { where: { id } }): every field of the body is set.
UpdatedRow(pr, data) ==
  [pr EXCEPT !.sku = IF data.sku = Null THEN @ ELSE data.sku,
             !.selling_price = IF data.selling_price = Null THEN @
                               ELSE data.selling_price[1]]

\* PUT /products/:id
PutProduct(p, userId, id, body) ==
  /\ proc[p].pc = "idle"
  /\ LET err == UpdateProductError(userId, id, body)
         tbl == IF err # "" THEN products
                ELSE {IF pr.id = id THEN UpdatedRow(pr, body) ELSE pr : pr \in products}
     IN  /\ products' = tbl
         /\ proc' = [proc EXCEPT ![p] =
                       MutationDone("UpdateProduct", userId, {id}, err, tbl # products)]
  /\ UNCHANGED <<now, inventories, nextInventoryId, orders, order_items, nextOrderId,
                 users, calls, last, balance, roles, tokens,
                 categories>>

\* Product.destroy({ where: { id: ids } }).  The Inventory and OrderItem
\* models declare foreign keys on products (lots ON DELETE CASCADE, order
\* lines ON DELETE RESTRICT) which the migrations do not create: fk tells
\* whether the schema has them.
DestroyProducts(p, kind, userId, ids, fk) ==
  LET u == CHOOSE x \in users : x.id = userId
      found == {pr \in products : pr.id \in ids}
      restricted == fk /\ \E l \in order_items : l.product_id \in ids
      err == IF u.level # 99 /\ u.store_id = "" THEN "UserHasNoStore"
             ELSE IF restricted THEN "ForeignKeyError"
             ELSE IF found = {} THEN "ProductNotFound"
             ELSE ""
      lots == IF err = "" /\ fk
              THEN {l \in inventories : \A pr \in found : l.product_id # pr.id}
              ELSE inventories
  IN  /\ proc[p].pc = "idle"
      /\ products' = IF err = "" THEN products \ found ELSE products
      /\ inventories' = lots
      /\ proc' = [proc EXCEPT ![p] =
                    MutationDone(kind, userId, ids, err,
                                 err = "" \/ lots # inventories)]
      /\ last' = NoCall
      /\ UNCHANGED <<now, nextInventoryId, orders, order_items, nextOrderId,
                     users, calls, balance, roles, tokens,
                 categories>>

\* DELETE /products/:id
DeleteProduct(p, userId, id, fk) == DestroyProducts(p, "DeleteProduct", userId, {id}, fk)

\* DELETE /products/bulk
DeleteProductsBulk(p, userId, ids, fk) ==
  DestroyProducts(p, "DeleteProductsBulk", userId, ids, fk)

\* Lots are received and depleted and products are updated and deleted, one
\* request at a time.
MutationNext ==
  \/ AllIdle /\ Receive(MaxStock)
  \/ \E userId \in UserIds, id \in RequestProductIds, body \in UpdateRequests :
       PutProduct(1, userId, id, body)
  \/ \E userId \in UserIds, id \in RequestProductIds, fk \in BOOLEAN :
       DeleteProduct(1, userId, id, fk)
  \/ \E userId \in UserIds, ids \in BulkIds, fk \in BOOLEAN :
       DeleteProductsBulk(1, userId, ids, fk)
  \/ \E quantityToReduce \in DepleteQuantities : Deplete(1, "P1", quantityToReduce)
  \/ ReduceFind(1)
  \/ ReduceWrite(1)
  \/ Return(1)

MutationSpec == Init /\ [][MutationNext]_vars

----
\* Identity and access: login, the two middlewares, and the requests that
\* change roles, users and categories.  A request is one step; process 1
\* records the last one.

RoleLevels == {99}
CategoryNames == {"a", "b"}

\* The users table; role_id is null for a user without role.
UserRows ==
  {[id |-> "u1", store_id |-> "S1", role_id |-> <<"r40">>],
   [id |-> "u0", store_id |-> "", role_id |-> Null],
   [id |-> "u9", store_id |-> "", role_id |-> <<"r99">>]}

AccessInit ==
  /\ now = 0
  /\ inventories = {}
  /\ nextInventoryId = 1
  /\ orders = {}
  /\ order_items = {}
  /\ nextOrderId = 1
  /\ products = {}
  /\ users = UserRows
  /\ proc = [p \in Procs |-> IdleProc]
  /\ calls = 0
  /\ last = NoCall
  /\ balance = [p \in ProductIds |-> 0]
  /\ roles = RoleRows
  /\ tokens = {}
  /\ categories = CategoryRows

\* The level of the role the user has now: <<level>>, or null without role
\* or without user.
CurrentLevel(userId) ==
  IF \E u \in users : u.id = userId /\ u.role_id # Null
  THEN LET u == CHOOSE x \in users : x.id = userId
       IN  <<(CHOOSE r \in roles : r.id = u.role_id[1]).level>>
  ELSE Null

\* `level: role?.level || null` of the token payload.
TokenLevel(userId) ==
  LET l == CurrentLevel(userId)
  IN  IF l = Null \/ l[1] = 0 THEN Null ELSE l

\* AuthUseCase.Login: a token with the user's id and the level of the role
\* the user has at this moment.
Login(userId) ==
  /\ Cardinality(tokens) < MaxTokens
  /\ \E u \in users : u.id = userId
  /\ tokens' = tokens \cup {[userId |-> userId, level |-> TokenLevel(userId)]}
  /\ proc' = [proc EXCEPT ![1] = [IdleProc EXCEPT !.pc = "done", !.kind = "Login",
                                                  !.userId = userId, !.outcome = "ok"]]
  /\ UNCHANGED <<now, inventories, nextInventoryId, orders, order_items, nextOrderId,
                 products, users, calls, last, balance, roles, categories>>

\* AuthenticateMiddleware: req.user of a request with this token, or null
\* when the user is gone (401).  The level is the role's when the user has a
\* role, and the token's otherwise.
Authenticate(token) ==
  IF ~\E u \in users : u.id = token.userId THEN Null
  ELSE <<[userId |-> token.userId,
          level |-> IF CurrentLevel(token.userId) # Null
                    THEN CurrentLevel(token.userId) ELSE token.level]>>

\* RequireLevel(minLevel) after AuthenticateMiddleware: "" when the request
\* goes on to the handler.
RequireLevel(minLevel, token) ==
  LET user == Authenticate(token)
  IN  IF user = Null THEN "Unauthorized"
      ELSE IF user[1].level = Null \/ user[1].level[1] = 0 \/ user[1].level[1] < minLevel
           THEN "Forbidden"
           ELSE ""

\* The middlewares of a route that only authenticates.
AuthenticateOnly(token) == IF Authenticate(token) = Null THEN "Unauthorized" ELSE ""

\* The record of a request: its minimum level (0 without RequireLevel), the
\* level of the role its user had when it arrived, and what it did.
AccessDone(kind, userId, minLevel, err, changed) ==
  [IdleProc EXCEPT !.pc = "done", !.kind = kind, !.userId = userId,
                   !.minLevel = minLevel, !.roleLevel = CurrentLevel(userId),
                   !.outcome = IF err = "" THEN "ok" ELSE err,
                   !.wrote = changed]

\* POST /roles: AuthenticateMiddleware, RequireLevel(51), RoleUseCase.CreateRole.
PostRole(token, id, level) ==
  /\ ~\E r \in roles : r.id = id
  /\ LET err == RequireLevel(51, token)
     IN  /\ roles' = IF err = "" THEN roles \cup {[id |-> id, level |-> level]} ELSE roles
         /\ proc' = [proc EXCEPT ![1] = AccessDone("CreateRole", token.userId, 51, err, err = "")]
  /\ UNCHANGED <<now, inventories, nextInventoryId, orders, order_items, nextOrderId,
                 products, users, calls, last, balance, tokens, categories>>

\* PUT /roles/:id: AuthenticateMiddleware, RoleUseCase.UpdateRole.
PutRole(token, id, level) ==
  /\ LET auth == AuthenticateOnly(token)
         err == IF auth # "" THEN auth
                ELSE IF ~\E r \in roles : r.id = id THEN "RoleNotFound" ELSE ""
     IN  /\ roles' = IF err = ""
                     THEN {IF r.id = id THEN [r EXCEPT !.level = level] ELSE r : r \in roles}
                     ELSE roles
         /\ proc' = [proc EXCEPT ![1] =
                       AccessDone("UpdateRole", token.userId, 0, err, roles' # roles)]
  /\ UNCHANGED <<now, inventories, nextInventoryId, orders, order_items, nextOrderId,
                 products, users, calls, last, balance, tokens, categories>>

\* DELETE /roles/:id: no middleware, RoleUseCase.DeleteRole; users.role_id is
\* ON DELETE SET NULL.
DeleteRole(id) ==
  /\ LET err == IF ~\E r \in roles : r.id = id THEN "RoleNotFound" ELSE ""
     IN  /\ roles' = {r \in roles : r.id # id}
         /\ users' = {IF u.role_id = <<id>> THEN [u EXCEPT !.role_id = Null] ELSE u : u \in users}
         /\ proc' = [proc EXCEPT ![1] = AccessDone("DeleteRole", "", 0, err, err = "")]
  /\ UNCHANGED <<now, inventories, nextInventoryId, orders, order_items, nextOrderId,
                 products, calls, last, balance, tokens, categories>>

\* PUT /users/:id: AuthenticateMiddleware, UserUseCase.UpdateUser with a body
\* that gives a role_id.
PutUser(token, id, role_id) ==
  /\ LET auth == AuthenticateOnly(token)
         err == IF auth # "" THEN auth
                ELSE IF ~\E r \in roles : r.id = role_id THEN "ForeignKeyConstraintError"
                ELSE IF ~\E u \in users : u.id = id THEN "UserNotFound" ELSE ""
     IN  /\ users' = IF err = ""
                     THEN {IF u.id = id THEN [u EXCEPT !.role_id = <<role_id>>] ELSE u : u \in users}
                     ELSE users
         /\ proc' = [proc EXCEPT ![1] =
                       AccessDone("UpdateUser", token.userId, 0, err, users' # users)]
  /\ UNCHANGED <<now, inventories, nextInventoryId, orders, order_items, nextOrderId,
                 products, calls, last, balance, roles, tokens, categories>>

\* DELETE /users/:id: no middleware, UserUseCase.DeleteUser.
DeleteUser(id) ==
  /\ LET err == IF ~\E u \in users : u.id = id THEN "UserNotFound" ELSE ""
     IN  /\ users' = {u \in users : u.id # id}
         /\ proc' = [proc EXCEPT ![1] = AccessDone("DeleteUser", "", 0, err, err = "")]
  /\ UNCHANGED <<now, inventories, nextInventoryId, orders, order_items, nextOrderId,
                 products, calls, last, balance, roles, tokens, categories>>

\* PUT /categories/:id: AuthenticateMiddleware, CategoryUseCase.UpdateCategory.
PutCategory(token, id, name) ==
  /\ LET auth == AuthenticateOnly(token)
         err == IF auth # "" THEN auth
                ELSE IF ~\E c \in categories : c.id = id THEN "CategoryNotFound" ELSE ""
     IN  /\ categories' = IF err = ""
                          THEN {IF c.id = id THEN [c EXCEPT !.name = name] ELSE c : c \in categories}
                          ELSE categories
         /\ proc' = [proc EXCEPT ![1] =
                       AccessDone("UpdateCategory", token.userId, 0, err,
                                  categories' # categories)]
  /\ UNCHANGED <<now, inventories, nextInventoryId, orders, order_items, nextOrderId,
                 products, users, calls, last, balance, roles, tokens>>

\* DELETE /categories/:id: AuthenticateMiddleware, CategoryUseCase.DeleteCategory.
DeleteCategory(token, id) ==
  /\ LET auth == AuthenticateOnly(token)
         err == IF auth # "" THEN auth
                ELSE IF ~\E c \in categories : c.id = id THEN "CategoryNotFound" ELSE ""
     IN  /\ categories' = IF err = "" THEN {c \in categories : c.id # id} ELSE categories
         /\ proc' = [proc EXCEPT ![1] =
                       AccessDone("DeleteCategory", token.userId, 0, err, err = "")]
  /\ UNCHANGED <<now, inventories, nextInventoryId, orders, order_items, nextOrderId,
                 products, users, calls, last, balance, roles, tokens>>

AccessNext ==
  \/ \E userId \in UserIds : Login(userId)
  \/ \E token \in tokens, level \in RoleLevels : PostRole(token, "r51", level)
  \/ \E token \in tokens, id \in {"r40", "rX"}, level \in RoleLevels : PutRole(token, id, level)
  \/ \E id \in {"r40", "r99"} : DeleteRole(id)
  \/ \E token \in tokens, id \in {"u1", "uX"}, role_id \in {"r99", "rX"} :
       PutUser(token, id, role_id)
  \/ \E id \in {"u1", "uX"} : DeleteUser(id)
  \/ \E token \in tokens, id \in {1, 2}, name \in CategoryNames : PutCategory(token, id, name)
  \/ \E token \in tokens, id \in {1, 2} : DeleteCategory(token, id)

AccessSpec == AccessInit /\ [][AccessNext]_vars

----
\* SKU generation over time: the clock moves by a second, a minute, an hour
\* or a day, and generateSku is called; process 1 holds the last call and
\* process 2 the one before.

\* The fields of an instant as the getters of Date give them.
DateOf(t) == t \div DayLen
Hours(t) == (t % DayLen) \div 3600
Minutes(t) == (t % 3600) \div 60
Seconds(t) == t % 60

Advance(d) ==
  /\ calls < MaxAdvance
  /\ calls' = calls + 1
  /\ now' = now + d
  /\ UNCHANGED <<inventories, nextInventoryId, orders, order_items, nextOrderId,
                 products, users, proc, last, balance, roles, tokens, categories>>

SkuCall(store_code, category_code) ==
  /\ proc' = [proc EXCEPT
                ![1] = [IdleProc EXCEPT
                          !.pc = "done", !.kind = "generateSku", !.outcome = "ok",
                          !.report = [at |-> now, storeCode |-> store_code,
                                      categoryCode |-> category_code,
                                      sku |-> GenerateSku(store_code, category_code, now)]],
                ![2] = proc[1]]
  /\ UNCHANGED <<now, inventories, nextInventoryId, orders, order_items, nextOrderId,
                 products, users, calls, last, balance, roles, tokens, categories>>

SkuNext ==
  \/ \E d \in {1, 60, 3600, DayLen} : Advance(d)
  \/ \E store_id \in StoreIds : SkuCall(StoreCode(store_id), CategoryCode("C1"))

SkuSpec == Init /\ [][SkuNext]_vars

----
\* Lots that outlive their expiry date: lots that expire at the first instant
\* are received, the clock advances, and the ledger is read and depleted, one
\* request at a time.

ExpiringLots == [product_id : {"P1"}, quantity : {1, 3}, expiry_date : {Null, <<0>>}]

ExpiryNext ==
  \/ AllIdle /\ Tick
  \/ \E l \in ExpiringLots :
       /\ AllIdle
       /\ nextInventoryId <= MaxLots
       /\ CreateInventory("u1", l.product_id, l.quantity, l.expiry_date)
  \/ \E quantityToReduce \in DepleteQuantities : AllIdle /\ Deplete(1, "P1", quantityToReduce)
  \/ AllIdle /\ Available(1, "P1")
  \/ ReduceFind(1)
  \/ ReduceWrite(1)
  \/ Return(1)

ExpirySpec == Init /\ [][ExpiryNext]_vars

----
\* Checkouts one at a time: a request arrives only when no other is being
\* handled.
SequentialNext ==
  \/ AllIdle /\ Tick
  \/ AllIdle /\ Receive(MaxStock)
  \/ CheckoutStep(1)

SequentialSpec == Init /\ [][SequentialNext]_vars

----
\* Properties.

AllOf(tbl, productId) == {l \in tbl : l.product_id = productId}
Expired(tbl, productId) == {l \in tbl : l.product_id = productId /\ l.status = "expired"}
NotExpired(tbl, productId) == AllOf(tbl, productId) \ Expired(tbl, productId)

\* A direct call of ReduceInventoryQuantity has returned or thrown.
DepleteDone(p) == proc[p].kind = "Deplete" /\ proc[p].pc = "done"

\* C1: under any interleaving of checkouts, the quantities of the depletions
\* that succeeded never exceed the allocatable quantity received for the
\* product.
C1_NoOverAllocation == \A productId \in ProductIds : balance[productId] >= 0

\* C2: after a call of Deplete(p, q) the allocatable quantity of p is the one
\* before the call minus q when the call succeeded, and the one before the
\* call when it failed.
C2_SumAfterDeplete ==
  \A p \in Procs :
    DepleteDone(p) =>
      LET before == SumQuantity(NotExpired(proc[p].tblBefore, proc[p].productId))
          after == SumQuantity(NotExpired(inventories, proc[p].productId))
      IN  IF proc[p].outcome = "ok"
          THEN after = before - proc[p].quantityToReduce
          ELSE after = before

\* The first k rows of a snapshot.
Prefix(invs, k) == {invs[i] : i \in 1..k}

\* C3: a successful Deplete(p, q) deletes a prefix of the ordered allocatable
\* lots, each no larger than the demand left at its turn, reduces the next
\* lot by the demand left when that lot is larger, touches nothing else, and
\* removes q in all.
C3_GreedyWalk ==
  \A p \in Procs :
    (DepleteDone(p) /\ proc[p].outcome = "ok") =>
      LET invs == proc[p].inventories
          q == proc[p].quantityToReduce
          tbl == proc[p].tblBefore
      IN  /\ invs \in FindByProductIdOrderedByExpiry(tbl, proc[p].productId)
          /\ \E k \in 0..Len(invs) :
               LET left == q - SumQuantity(Prefix(invs, k))
               IN  /\ left >= 0
                   /\ \A i \in 1..k :
                        invs[i].quantity <= q - SumQuantity(Prefix(invs, i - 1))
                   /\ IF left > 0
                      THEN /\ k < Len(invs)
                           /\ invs[k + 1].quantity > left
                           /\ inventories =
                                (tbl \ Prefix(invs, k + 1))
                                  \cup {[invs[k + 1] EXCEPT !.quantity = @ - left]}
                      ELSE inventories = tbl \ Prefix(invs, k)
          /\ SumQuantity(tbl) - SumQuantity(inventories) = q

\* C3 witness: a call that deleted one lot and reduced the next one.
C3_Witness ==
  \E p \in Procs :
    /\ DepleteDone(p) /\ proc[p].outcome = "ok"
    /\ Len(proc[p].inventories) >= 2
    /\ ~\E l \in inventories : l.id = proc[p].inventories[1].id
    /\ \E l \in inventories :
         /\ l.id = proc[p].inventories[2].id
         /\ l.quantity < proc[p].inventories[2].quantity

Sorted(s) == \A i, j \in DOMAIN s : i < j => ~OrderedBefore(s[j], s[i])

\* C4: ListAllocatable(p) is the non-expired lots of p, ordered by expiry
\* date ascending, nulls last, then by created_at ascending, and the lot
\* snapshot determines the result.
C4_ListAllocatable ==
  \A productId \in ProductIds :
    /\ \A s \in FindByProductIdOrderedByExpiry(inventories, productId) :
         /\ Range(s) = NotExpired(inventories, productId)
         /\ Len(s) = Cardinality(NotExpired(inventories, productId))
         /\ Sorted(s)
    /\ Cardinality(FindByProductIdOrderedByExpiry(inventories, productId)) = 1

\* C5: with allocatable lots of expiry E1 < E2 < null, a Deplete of less than
\* the E1 lot's quantity reduces the E1 lot by that much and leaves the E2 lot
\* and the null-expiry lot as they were.
C5_FifoFrame ==
  \A p \in Procs :
    DepleteDone(p) =>
      \A a, b, c \in proc[p].tblBefore :
        ( /\ NotExpired(proc[p].tblBefore, proc[p].productId) = {a, b, c}
          /\ a.expiry_date # Null /\ b.expiry_date # Null /\ c.expiry_date = Null
          /\ a.expiry_date[1] < b.expiry_date[1]
          /\ proc[p].quantityToReduce < a.quantity )
        => /\ proc[p].outcome = "ok"
           /\ b \in inventories
           /\ c \in inventories
           /\ [a EXCEPT !.quantity = @ - proc[p].quantityToReduce] \in inventories

\* C5 witness: such a call has returned.
C5_Witness ==
  \E p \in Procs :
    /\ DepleteDone(p)
    /\ \E a, b, c \in proc[p].tblBefore :
         /\ NotExpired(proc[p].tblBefore, proc[p].productId) = {a, b, c}
         /\ a.expiry_date # Null /\ b.expiry_date # Null /\ c.expiry_date = Null
         /\ a.expiry_date[1] < b.expiry_date[1]
         /\ proc[p].quantityToReduce < a.quantity
         /\ a \notin inventories

\* C6: GetAvailableQuantity(p) is the sum of the quantities of the lots of p
\* that are not expired, and 0 when p has no lot.
C6_AvailableQuantity ==
  \A p \in Procs :
    (proc[p].kind = "Available" /\ proc[p].pc = "done") =>
      /\ proc[p].outcome = "ok"
      /\ proc[p].availableQuantity =
           SumQuantity(AllOf(inventories, proc[p].productId))
             - SumQuantity(Expired(inventories, proc[p].productId))
      /\ AllOf(inventories, proc[p].productId) = {} => proc[p].availableQuantity = 0

\* C6 witness: the quantity of a product with an expired lot and two other
\* lots was read.
C6_Witness ==
  \E p \in Procs :
    /\ proc[p].kind = "Available" /\ proc[p].pc = "done"
    /\ SumQuantity(Expired(inventories, proc[p].productId)) > 0
    /\ Cardinality(NotExpired(inventories, proc[p].productId)) = 2
    /\ proc[p].availableQuantity > 0

\* The error a call of Deplete ended with, "" when it succeeded.
DepleteError(p) == IF proc[p].outcome = "ok" THEN "" ELSE proc[p].outcome

\* What an InsufficientInventory error reports.
ReportIs(p, available) ==
  /\ proc[p].report # Null
  /\ proc[p].report[1].requested = proc[p].quantityToReduce
  /\ proc[p].report[1].available = available
  /\ proc[p].report[1].missing = proc[p].quantityToReduce - available
  /\ proc[p].report[1].requested = proc[p].report[1].available + proc[p].report[1].missing

\* C7 as stated: Deplete(p, q) fails with ProductHasNoInventory exactly when
\* p has no lot, and with InsufficientInventory, reporting requested,
\* available and missing, exactly when p has lots and they do not cover q.
C7_ErrorsAsStated ==
  \A p \in Procs :
    DepleteDone(p) =>
      LET lots == AllOf(proc[p].tblBefore, proc[p].productId)
          available == SumQuantity(NotExpired(proc[p].tblBefore, proc[p].productId))
      IN  /\ DepleteError(p) = "ProductHasNoInventory" <=> lots = {}
          /\ DepleteError(p) = "InsufficientInventory"
               <=> (lots # {} /\ proc[p].quantityToReduce > available)
          /\ DepleteError(p) = "InsufficientInventory" => ReportIs(p, available)

\* C7 amended: Deplete(p, q) fails with ProductHasNoInventory exactly when p
\* has no allocatable lot (no lot, or expired lots only), and with
\* InsufficientInventory, reporting requested, available and missing with
\* requested = available + missing, exactly when p has allocatable lots and
\* they do not cover q.
C7_DepleteErrors ==
  \A p \in Procs :
    DepleteDone(p) =>
      LET lots == NotExpired(proc[p].tblBefore, proc[p].productId)
          available == SumQuantity(lots)
      IN  /\ DepleteError(p) = "ProductHasNoInventory" <=> lots = {}
          /\ DepleteError(p) = "InsufficientInventory"
               <=> (lots # {} /\ proc[p].quantityToReduce > available)
          /\ DepleteError(p) = "InsufficientInventory" => ReportIs(p, available)

\* C7 witness: a product with expired lots only was refused with
\* ProductHasNoInventory, and another call ended with InsufficientInventory.
C7_Witness ==
  \E p \in Procs :
    /\ DepleteDone(p)
    /\ proc[p].outcome = "ProductHasNoInventory"
    /\ AllOf(proc[p].tblBefore, proc[p].productId) # {}
    /\ last.outcome = "InsufficientInventory"

\* The call that returned is the second of two equal calls in sequence, and
\* the quantity asked is the quantity that was available before the first.
SecondOfTwo(p) ==
  /\ DepleteDone(p)
  /\ last.outcome = "ok"
  /\ last.productId = proc[p].productId
  /\ last.quantityToReduce = proc[p].quantityToReduce
  /\ last.available = last.quantityToReduce

\* C8 as stated: the second of two calls Deplete(p, q) made when q is
\* available fails with InsufficientInventory.
C8_SecondAsStated ==
  \A p \in Procs : SecondOfTwo(p) => proc[p].outcome = "InsufficientInventory"

\* C8 amended: the second of two calls Deplete(p, q) made when q is available
\* fails: with ProductHasNoInventory when the first call left no allocatable
\* lot, with InsufficientInventory when it left allocatable lots of quantity 0.
C8_NotIdempotent ==
  \A p \in Procs :
    SecondOfTwo(p) =>
      proc[p].outcome =
        IF NotExpired(proc[p].tblBefore, proc[p].productId) = {}
        THEN "ProductHasNoInventory"
        ELSE "InsufficientInventory"

\* C8 witness: a second call failed with ProductHasNoInventory.
C8_Witness ==
  \E p \in Procs : SecondOfTwo(p) /\ proc[p].outcome = "ProductHasNoInventory"

\* C9: an order is in the table exactly with all its lines: every order has
\* as many lines as its cart had items, and every line has its order.
C9_OrderAtomic ==
  /\ \A o \in orders :
       /\ o.lines > 0
       /\ {i.line : i \in {x \in order_items : x.order_id = o.id}} = 1..o.lines
  /\ \A i \in order_items : \E o \in orders : o.id = i.order_id

\* C9 witness: an order with two lines is in the table and the creation of
\* another order failed.
C9_Witness ==
  /\ \E o \in orders : o.lines = 2
  /\ \E p \in Procs : proc[p].outcome = "OrderCreateFailed"

\* The errors Checkout throws before it persists anything.
PreCommitErrors ==
  {"ItemsRequired", "GrandTotalInvalid", "UserNotFound", "UserHasNoStore",
   "QuantityInvalid", "ProductNotFound", "ProductNotInStore",
   "InsufficientInventory", "GrandTotalMismatch"}

\* C10: a checkout whose request fails validation, store resolution, a
\* per-item check or the reconciliation ends with that error and has written
\* nothing: no order, no order line, no change to a lot.
C10_FailedCheckoutNoEffect ==
  \A p \in Procs :
    proc[p].kind = "Checkout" =>
      /\ proc[p].invalid => (proc[p].pc = "done" /\ proc[p].outcome \in PreCommitErrors)
      /\ proc[p].outcome \in PreCommitErrors => (~proc[p].wrote /\ proc[p].order = Null)

\* C10 witness: a checkout was refused for insufficient inventory while the
\* product had stock, and another one for a total off by more than the
\* tolerance.
C10_Witness ==
  \E p, q \in Procs :
    /\ proc[p].outcome = "InsufficientInventory" /\ proc[p].invalid
    /\ SumQuantity(NotExpired(inventories, "P1")) > 0
    /\ proc[q].outcome = "GrandTotalMismatch" /\ proc[q].invalid

\* The lines of an order.
LinesOf(tbl, o) == {l \in tbl : l.order_id = o.id}

RECURSIVE SumTotalPrice(_)
SumTotalPrice(S) ==
  IF S = {} THEN 0
  ELSE LET l == CHOOSE x \in S : TRUE
       IN  l.total_price + SumTotalPrice(S \ {l})

C12_Reconciliation ==
  \A p \in Procs :
    proc[p].reconciled # Null =>
      LET calculatedTotal == proc[p].reconciled[1][1]
          grand_total == proc[p].reconciled[1][2]
      IN  IF Abs(calculatedTotal - grand_total) <= Tolerance
          THEN proc[p].outcome # "GrandTotalMismatch"
          ELSE /\ proc[p].pc = "done" /\ proc[p].outcome = "GrandTotalMismatch"
               /\ ~proc[p].wrote /\ proc[p].order = Null

\* C13: the total_price of every order line is its quantity times the
\* selling price of its product, and the total_price of every order is the
\* sum of the total_price of its lines.
C13_Totals ==
  \A o \in orders :
    /\ \A l \in LinesOf(order_items, o) :
         \A pr \in FindProduct(l.product_id) :
           l.total_price * QtyScale = pr.selling_price * l.quantity
    /\ o.total_price = SumTotalPrice(LinesOf(order_items, o))

\* C14: when the depletion of item k of a committed order fails, Checkout
\* ends with an error, the order and all its lines are in the tables, the
\* depletions of the k - 1 items before it were carried out, no later item is
\* depleted, and nothing is written after the failure.
C14_DepletionFailure ==
  [][\A p \in Procs :
       /\ (proc'[p].kind = "Checkout" /\ proc'[p].reduceError # "") =>
            /\ proc'[p].pc = "done"
            /\ proc'[p].outcome = "FailedToReduceInventory"
            /\ proc'[p].reduced = proc'[p].itemIdx - 1
            /\ \E o \in orders' :
                 /\ o = proc'[p].order[1]
                 /\ Cardinality(LinesOf(order_items', o)) = Len(proc'[p].data.items)
       /\ proc[p].outcome = "FailedToReduceInventory" =>
            \/ proc'[p] = proc[p]
            \/ /\ proc'[p] = IdleProc
               /\ UNCHANGED <<inventories, orders, order_items>>]_vars

\* C14 witness: the depletion of the second item of an order failed after
\* the first item was depleted; the order is in the table.
C14_Witness ==
  \E p \in Procs :
    /\ proc[p].outcome = "FailedToReduceInventory"
    /\ proc[p].itemIdx = 2 /\ proc[p].reduced = 1
    /\ proc[p].reduceError = "InsufficientInventory"
    /\ proc[p].order[1] \in orders

\* C15: the status of every lot, received singly or by file, is the function
\* of its expiry date and of the time of its creation the rule gives: active
\* without expiry date; otherwise, with d the least number of whole days
\* that covers expiry_date - now, expired when d < 0, near_expiry when
\* 0 <= d <= 7, active when d > 7.
C15_StatusRule ==
  \A l \in inventories :
    IF l.expiry_date = Null THEN l.status = "active"
    ELSE \E d \in -3..10 :
           /\ d * DayLen >= l.expiry_date[1] - l.created_at
           /\ (d - 1) * DayLen < l.expiry_date[1] - l.created_at
           /\ l.status = IF d < 0 THEN "expired"
                         ELSE IF d <= 7 THEN "near_expiry"
                         ELSE "active"

\* C15 witness: a lot that expires 7 days and 1 second after its creation
\* is active, and a lot that expired a day before its creation is expired.
C15_Witness ==
  /\ \E l \in inventories :
       /\ l.expiry_date # Null /\ l.expiry_date[1] - l.created_at = 7 * DayLen + 1
       /\ l.status = "active"
  /\ \E l \in inventories :
       /\ l.expiry_date # Null /\ l.expiry_date[1] - l.created_at = -DayLen
       /\ l.status = "expired"

\* C16: a lot whose expiry date is exactly 7 days after its creation is
\* near_expiry, one whose expiry date is exactly 8 days after is active, and
\* one whose expiry date is 1 second before is expired.
C16_Boundaries ==
  \A l \in inventories :
    l.expiry_date # Null =>
      /\ l.expiry_date[1] = l.created_at + 7 * DayLen => l.status = "near_expiry"
      /\ l.expiry_date[1] = l.created_at + 8 * DayLen => l.status = "active"
      /\ l.expiry_date[1] = l.created_at - 1 => l.status = "expired"

C18_AllOrNothing ==
  \A p \in Procs :
    proc[p].kind \in {"CreateInventory", "CreateInventoryBatch"} =>
      /\ proc[p].invalid => proc[p].outcome # "ok"
      /\ proc[p].outcome # "ok" => proc[p].inserted = 0
      /\ proc[p].outcome = "ok" => proc[p].inserted = proc[p].data.length

\* C18 witness: a file of two rows was refused for its second row and
\* nothing of it was inserted.
C18_Witness ==
  \E p \in Procs :
    /\ proc[p].kind = "CreateInventoryBatch"
    /\ proc[p].data.length = 2
    /\ proc[p].invalid /\ proc[p].outcome = "ProductNotInStore"
    /\ proc[p].inserted = 0

\* C19: every product has a store; a product created for a user below level
\* 99 has the store of that user, whatever store_id the request gave; a
\* request of a user of level 99 that gives no store_id is refused.
C19_StorePinned ==
  /\ \A pr \in products :
       /\ pr.store_id # ""
       /\ \A u \in users :
            (u.id = pr.created_by /\ u.level # 99) => pr.store_id = u.store_id
  /\ \A p \in Procs :
       (proc[p].kind \in {"CreateProduct", "CreateProductsBatch"} /\ proc[p].invalid) =>
         (proc[p].pc = "done" /\ proc[p].outcome # "ok")

\* C20: no two products have the same SKU, and a request that gives a SKU
\* that is in the table, or that an earlier row of the same file gives, ends
\* with DuplicateSku and creates no product.
C20_SkuUnique ==
  /\ \A p1, p2 \in products : p1.sku = p2.sku => p1.id = p2.id
  /\ \A p \in Procs :
       (proc[p].kind \in {"CreateProduct", "CreateProductsBatch"}
          /\ proc[p].scope = "skutaken" /\ proc[p].pc = "done") =>
         (proc[p].outcome = "DuplicateSku" /\ proc[p].inserted = 0)

\* C21: no step changes the sku of a product that exists.
C21_SkuImmutable ==
  [][\A pr \in products : \A pr2 \in products' : pr2.id = pr.id => pr2.sku = pr.sku]_vars

C30_MutationStoreScoped ==
  \A p \in Procs :
    (proc[p].kind \in {"UpdateProduct", "DeleteProduct", "DeleteProductsBulk"}
       /\ proc[p].scope = "foreign") =>
      (proc[p].outcome # "ok" /\ ~proc[p].wrote)

\* A request that went through RequireLevel has been answered.
LevelProtected(p) == proc[p].pc = "done" /\ proc[p].kind = "CreateRole"

\* C23: a level-protected request proceeds exactly when the role its user has
\* at that moment has a level of at least the minimum; without role it is
\* denied.
C23_CurrentRoleLevel ==
  \A p \in Procs :
    LevelProtected(p) =>
      (proc[p].outcome = "ok" <=>
         (proc[p].roleLevel # Null /\ proc[p].roleLevel[1] >= proc[p].minLevel))

\* C24: a step that changes a role, a user or a category is the step of a
\* request whose user has a role of level 51 or more, the deletion of a role
\* excepted.
C24_AdminMutations ==
  [][(roles' # roles \/ users' # users \/ categories' # categories) =>
       \/ proc'[1].kind = "DeleteRole"
       \/ proc'[1].roleLevel # Null /\ proc'[1].roleLevel[1] >= 51]_vars

\* C22: the SKU is the store code, the category code and the date, the hour
\* and the second of the instant of the call, without the minute: two calls
\* with the same codes at instants that differ only in the minute return the
\* same SKU.
C22_SkuFormat ==
  (proc[1].kind = "generateSku" /\ proc[2].kind = "generateSku") =>
    LET a == proc[1].report
        b == proc[2].report
    IN  /\ a.sku = <<a.storeCode, a.categoryCode, DateOf(a.at), Hours(a.at), Seconds(a.at)>>
        /\ ( /\ a.storeCode = b.storeCode /\ a.categoryCode = b.categoryCode
             /\ DateOf(a.at) = DateOf(b.at) /\ Hours(a.at) = Hours(b.at)
             /\ Seconds(a.at) = Seconds(b.at) )
           => a.sku = b.sku

\* C22 witness: two calls with the same codes, a minute apart, returned the
\* same SKU.
C22_Witness ==
  /\ proc[1].kind = "generateSku" /\ proc[2].kind = "generateSku"
  /\ proc[1].report.storeCode = proc[2].report.storeCode
  /\ Minutes(proc[1].report.at) # Minutes(proc[2].report.at)
  /\ DateOf(proc[1].report.at) = DateOf(proc[2].report.at)
  /\ Hours(proc[1].report.at) = Hours(proc[2].report.at)
  /\ Seconds(proc[1].report.at) = Seconds(proc[2].report.at)
  /\ proc[1].report.sku = proc[2].report.sku

\* The order of the checkout of process p and all its lines are in the tables.
Committed(p) ==
  /\ proc[p].order # Null
  /\ proc[p].order[1] \in orders
  /\ Cardinality({l \in order_items : l.order_id = proc[p].order[1].id}) = proc[p].order[1].lines

\* C25: a step of a checkout changes the lots only after its order and lines
\* are committed; the lot it writes is for the cart item the loop is at, all
\* items before that one are done, and the loop moves to the next item only
\* in the step in which the depletion of the current item returns.
C25_DepletionOrder ==
  [][\A p \in Procs :
       (proc[p].kind = "Checkout" /\ proc'[p] # proc[p]) =>
         /\ inventories' # inventories =>
              /\ Committed(p)
              /\ proc[p].itemIdx \in 1..Len(proc[p].data.items)
              /\ proc[p].productId = proc[p].data.items[proc[p].itemIdx].product_id
              /\ proc[p].quantityToReduce = proc[p].data.items[proc[p].itemIdx].quantity
              /\ proc[p].reduced = proc[p].itemIdx - 1
         /\ (proc[p].pc \in {"rq_find", "rq_write"} /\ proc'[p].itemIdx # proc[p].itemIdx) =>
              /\ proc'[p].itemIdx = proc[p].itemIdx + 1
              /\ proc'[p].pc = "rq_find"
              /\ proc'[p].reduced = proc[p].itemIdx
              /\ proc'[p].remainingQuantity = 0]_vars

\* C25 witness: a checkout is about to write a lot for its second item, the
\* first one done.
C25_Witness ==
  \E p \in Procs :
    /\ proc[p].kind = "Checkout" /\ proc[p].pc = "rq_write"
    /\ proc[p].itemIdx = 2 /\ proc[p].reduced = 1
    /\ Committed(p)

\* C29: no two orders have the same invoice number; the insert of an order
\* whose invoice number an order already has fails, and the checkout then
\* ends in an error with no order, no line and no lot change left behind.
C29_InvoiceUnique ==
  [][/\ \A o1, o2 \in orders' : o1.invoice_number = o2.invoice_number => o1 = o2
     /\ \A p \in Procs :
          /\ ( /\ proc[p].pc = "oc_order" /\ proc'[p] # proc[p]
               /\ \E o \in orders : o.invoice_number = proc[p].order[1].invoice_number )
             => /\ proc'[p].pc = "oc_rollback"
                /\ orders' = orders /\ order_items' = order_items
                /\ inventories' = inventories
          /\ (proc[p].pc = "oc_rollback" /\ proc'[p] # proc[p])
             => /\ proc'[p].pc = "done" /\ proc'[p].outcome = "OrderCreateFailed"
                /\ ~proc'[p].wrote
                /\ ~\E o \in orders' : o.id = proc[p].order[1].id
                /\ ~\E l \in order_items' : l.order_id = proc[p].order[1].id
                /\ inventories' = inventories]_vars

\* C29 witness: the insert of the order of a checkout has failed on an invoice
\* number that the order of another checkout of the same store and second
\* has.
C29_Witness ==
  \E p \in Procs :
    /\ proc[p].kind = "Checkout" /\ proc[p].pc = "oc_rollback"
    /\ proc[p].order[1].id = 0
    /\ \E o \in orders : /\ o.invoice_number = proc[p].order[1].invoice_number
                         /\ o.store_id = proc[p].order[1].store_id

\* The lots of a product whose expiry date is before the current time.
PastExpiry(tbl, productId) ==
  {l \in tbl : l.product_id = productId /\ l.expiry_date # Null /\ l.expiry_date[1] < now}

\* C26: no step changes the status of a lot, and the available quantity and
\* the snapshot of a depletion are taken by the stored status alone: a lot
\* stored as active or near_expiry counts, and is depleted, after its expiry
\* date has passed.
C26_StoredStatusDecides ==
  [][/\ \A l \in inventories : \A l2 \in inventories' : l2.id = l.id => l2.status = l.status
     /\ \A p \in Procs :
          /\ (proc'[p].kind = "Available" /\ proc'[p].pc = "done") =>
               proc'[p].availableQuantity =
                 SumQuantity(NotExpired(inventories', proc'[p].productId))
          /\ (proc[p].kind = "Deplete" /\ proc[p].pc = "rq_find" /\ proc'[p] # proc[p]) =>
               Range(proc'[p].inventories) = NotExpired(inventories, proc[p].productId)]_vars

\* C26 witness: a depletion has consumed a lot stored as near_expiry whose
\* expiry date had passed when the depletion began.
C26_Witness ==
  \E p \in Procs :
    /\ DepleteDone(p) /\ proc[p].outcome = "ok"
    /\ \E l \in PastExpiry(proc[p].tblBefore, proc[p].productId) :
         /\ l.status = "near_expiry"
         /\ l.created_at < now
         /\ l \notin inventories

\* C28: without concurrent requests, a checkout that has persisted its order
\* ends well with every item of its cart depleted.
C28_SequentialDepletion ==
  \A p \in Procs :
    (proc[p].kind = "Checkout" /\ proc[p].pc = "done" /\ proc[p].wrote) =>
      /\ proc[p].outcome = "ok"
      /\ proc[p].reduced = Len(proc[p].data.items)

====
